---- MODULE Spec2Model ----
(***************************************************************************)
(* Model of the location sharing WebSocket server (LocationServer, in      *)
(* src/unnamed/part_002) and of its Redis persistence layer (RedisService, *)
(* in src/redis-service.js).                                               *)
(*                                                                         *)
(* The server is a single-threaded event loop: every handler runs without  *)
(* interruption up to an await on Redis I/O.  An action of this module is  *)
(* one such uninterrupted piece: a WebSocket callback, a timer callback,   *)
(* or the continuation that runs when a Redis reply arrives.               *)
(*                                                                         *)
(* Time is the value of Date.now(), counted in model time units.  The      *)
(* configuration constants keep the names of the source; the durations and *)
(* the two capacity limits are scaled down so that the state space is      *)
(* finite (the source values are given beside each one).  Every comparison *)
(* made with them is the one the source makes.                             *)
(***************************************************************************)
EXTENDS Integers, Sequences, FiniteSets, TLC

(***************************************************************************)
(* Bounds of the model.                                                    *)
(***************************************************************************)
MaxConns == 2       \* WebSocket connections ever opened
MaxTime == 5        \* Date.now() stops advancing here
MaxInFlight == 2    \* location updates awaiting Redis at the same time

(***************************************************************************)
(* LocationServer.config and RedisService.config.                          *)
(***************************************************************************)
maxUsers == 2                 \* source: 100
locationUpdateInterval == 2   \* source: 2000 ms
userTimeout == 3              \* source: 30000 ms
maxNameLength == 50
maxLocationEntries == 2       \* source: 100
retryLimit == 2               \* source: 10 (reconnectStrategy)
locationTTL == 4              \* source: 7 days
userTTL == 5                  \* source: 30 days

Conns == 1..MaxConns
Names == {"alice", "bob"}
Keys == Names \cup {"carol"}
LongName == "a-name-of-51-characters"
FullName == "a-name-of-50-characters"
Null == "null"

(***************************************************************************)
(* Maps (JavaScript Map, Redis key space) are functions on the set of keys *)
(* present.                                                                *)
(***************************************************************************)
EmptyMap == [k \in {} |-> 0]
MapSet(m, k, v) == [x \in (DOMAIN m) \cup {k} |-> IF x = k THEN v ELSE m[x]]
MapDelete(m, k) == [x \in (DOMAIN m) \ {k} |-> m[x]]

(***************************************************************************)
(* Date.toISOString and new Date(s).getTime(): an ISO string carries the   *)
(* instant with millisecond precision, so parsing gives the instant back.  *)
(***************************************************************************)
toISOString(ms) == [iso |-> ms]
getTime(s) == s.iso

NameLength(n) ==
  CASE n = "" -> 0
    [] n = "alice" -> 5
    [] n = "bob" -> 3
    [] n = "carol" -> 5
    [] n = LongName -> 51
    [] n = FullName -> 50

VARIABLES
  now,            \* Date.now()
  connState,      \* per connection: "idle" (not opened yet), "open", "closed"
  wsUsername,     \* ws.username of each connection
  users,          \* this.users: username -> user data
  connections,    \* this.connections: username -> connection
  userRateLimit,  \* this.userRateLimit: username -> time of last accepted update
  isConnected,    \* RedisService.isConnected
  redisPhase,     \* initializeRedis: "connecting", "loading", "ready", "failed"
  retries,        \* Redis client: failed attempts of the current (re)connection
  zset,           \* Redis: location_share:locations:<user>, a set of [score, member]
  hash,           \* Redis: location_share:user:<user>
  expireAt,       \* Redis: expiry instant of the keys that have one
  tasks,          \* handleLocationUpdate calls suspended in storeUserLocation
  sent,           \* per connection, the messages delivered by the last step
  last,           \* what the last step did
  lastAccepted    \* history: per username, when its last update was accepted

vars == <<now, connState, wsUsername, users, connections, userRateLimit,
          isConnected, redisPhase, retries, zset, hash, expireAt, tasks, sent, last,
          lastAccepted>>

memory == <<users, connections, userRateLimit>>
store == <<zset, hash, expireAt>>
redis == <<isConnected, redisPhase, retries>>

NoSent == [c \in Conns |-> <<>>]

(***************************************************************************)
(* The record of the last step: the operation, the connection and username *)
(* it concerned and its outcome.  For a location update, prev holds the    *)
(* time of the previous accepted update of that username, data the user    *)
(* data of an accepted update or the payload of a rejected one, and stored *)
(* what became of the Redis write ("pending", "skipped", "stored",         *)
(* "failed").  evicted are the usernames the step removed from the users   *)
(* map, removed the entries it removed from the sorted sets.               *)
(***************************************************************************)
Event(op, ws, name, code) ==
  [op |-> op, ws |-> ws, name |-> name, code |-> code, prev |-> {},
   stored |-> "none", data |-> {}, evicted |-> {}, removed |-> {}]

PreviousAccepted(name) ==
  IF name \in DOMAIN lastAccepted THEN {lastAccepted[name]} ELSE {}

(***************************************************************************)
(* validateLocationData.  A field of the payload is a value of its type or *)
(* is missing: a missing name is falsy, the typeof of a missing latitude   *)
(* or longitude is not 'number'.  Before it, a validator whose latitude    *)
(* test excludes the bounds.                                               *)
(***************************************************************************)
NameOf(data) == IF "name" \in DOMAIN data THEN data.name ELSE Null

validateLocationDataOpenRange(data, t) ==
  IF "name" \notin DOMAIN data \/ data.name = "" THEN "INVALID_NAME"
  ELSE IF NameLength(data.name) = 0 \/ NameLength(data.name) > maxNameLength
    THEN "INVALID_NAME"
  ELSE IF "latitude" \notin DOMAIN data \/ data.latitude <= -90 \/ data.latitude >= 90
    THEN "INVALID_LOCATION"
  ELSE IF "longitude" \notin DOMAIN data \/ data.longitude < -180 \/ data.longitude > 180
    THEN "INVALID_LOCATION"
  ELSE IF "lastUpdate" \in DOMAIN data /\ t - getTime(data.lastUpdate) > userTimeout
    THEN "STALE_LOCATION"
  ELSE "valid"

validateLocationData(data, t) ==
  IF "name" \notin DOMAIN data \/ data.name = "" THEN "INVALID_NAME"
  ELSE IF NameLength(data.name) = 0 \/ NameLength(data.name) > maxNameLength
    THEN "INVALID_NAME"
  ELSE IF "latitude" \notin DOMAIN data \/ data.latitude < -90 \/ data.latitude > 90
    THEN "INVALID_LOCATION"
  ELSE IF "longitude" \notin DOMAIN data \/ data.longitude < -180 \/ data.longitude > 180
    THEN "INVALID_LOCATION"
  ELSE IF "lastUpdate" \in DOMAIN data /\ t - getTime(data.lastUpdate) > userTimeout
    THEN "STALE_LOCATION"
  ELSE "valid"

(***************************************************************************)
(* isRateLimited, and before it a limiter that also rejects an update that *)
(* comes exactly locationUpdateInterval after the last accepted one.       *)
(***************************************************************************)
isRateLimitedInclusive(rateLimit, username, t) ==
  IF username \notin DOMAIN rateLimit \/ rateLimit[username] = 0 THEN FALSE
  ELSE (t - rateLimit[username]) <= locationUpdateInterval

isRateLimited(rateLimit, username, t) ==
  IF username \notin DOMAIN rateLimit \/ rateLimit[username] = 0 THEN FALSE
  ELSE (t - rateLimit[username]) < locationUpdateInterval

(***************************************************************************)
(* The user data handleLocationUpdate builds from an accepted payload.     *)
(***************************************************************************)
UserData(data, t) ==
  [name |-> data.name, latitude |-> data.latitude, longitude |-> data.longitude,
   lastUpdate |-> IF "lastUpdate" \in DOMAIN data THEN data.lastUpdate
                  ELSE toISOString(t)]

(***************************************************************************)
(* sendMessage and broadcastToOthers.  A message reaches a connection only *)
(* while it is open (ws.send on a closed socket throws, and sendMessage    *)
(* swallows the exception).  broadcastToOthers walks the connections map:  *)
(* a connection gets one copy for every username, other than the excluded  *)
(* one, that maps to it.                                                   *)
(* broadcastToOthersAborting is a broadcast that the exception of a send  *)
(* on a closed socket ends before anything is delivered.                  *)
(***************************************************************************)
sendMessage(cstate, ws, message) ==
  [c \in Conns |-> IF c = ws /\ cstate[c] = "open" THEN <<message>> ELSE <<>>]

broadcastToOthersAborting(cstate, conns, excludeUsername, message) ==
  [c \in Conns |->
     IF cstate[c] = "open"
        /\ \A u \in (DOMAIN conns) \ {excludeUsername} : cstate[conns[u]] = "open"
     THEN [i \in 1..Cardinality({u \in (DOMAIN conns) \ {excludeUsername} : conns[u] = c})
             |-> message]
     ELSE <<>>]

broadcastToOthers(cstate, conns, excludeUsername, message) ==
  [c \in Conns |->
     IF cstate[c] = "open"
     THEN [i \in 1..Cardinality({u \in (DOMAIN conns) \ {excludeUsername} : conns[u] = c})
             |-> message]
     ELSE <<>>]

ErrorMsg(code) == [type |-> "error", code |-> code]
UserLocationMsg(userData) == [type |-> "user_location", data |-> userData]

(***************************************************************************)
(* Redis sorted sets.  A sorted set is a set of [score, member] with no    *)
(* member twice; it is ordered by score and, for equal scores, by member   *)
(* (the JSON text; the members of the model differ in latitude or in       *)
(* lastUpdate only, and compare as those do).                              *)
(***************************************************************************)
MemberLess(a, b) ==
  \/ a.latitude < b.latitude
  \/ a.latitude = b.latitude /\ getTime(a.lastUpdate) < getTime(b.lastUpdate)

Before(x, y) ==
  \/ x.score < y.score
  \/ x.score = y.score /\ MemberLess(x.member, y.member)

Rank(z, e) == Cardinality({x \in z : Before(x, e)})

Index(i, n) == IF i < 0 THEN n + i ELSE i

zAdd(z, score, member) ==
  {e \in z : e.member # member} \cup {[score |-> score, member |-> member]}

zRemRangeByRank(z, start, stop) ==
  LET n == Cardinality(z)
  IN {e \in z : ~(Index(start, n) <= Rank(z, e) /\ Rank(z, e) <= Index(stop, n))}

zRemRangeByScore(z, min, max) == {e \in z : ~(min <= e.score /\ e.score <= max)}

(***************************************************************************)
(* ZRANGE key start stop [REV]: the members at the positions start..stop   *)
(* of the set, ordered from the lowest score to the highest, or with REV   *)
(* from the highest to the lowest.                                         *)
(***************************************************************************)
zRange(z, start, stop, rev) ==
  LET n == Cardinality(z)
      lo == IF Index(start, n) < 0 THEN 0 ELSE Index(start, n)
      hi == IF Index(stop, n) > n - 1 THEN n - 1 ELSE Index(stop, n)
      Position(e) == IF rev THEN n - 1 - Rank(z, e) ELSE Rank(z, e)
  IN IF lo > hi THEN <<>>
     ELSE [k \in 1..(hi - lo + 1) |->
             (CHOOSE e \in z : Position(e) = lo + k - 1).member]

(***************************************************************************)
(* client.zRange(key, min, max, options) of the Redis client library: the  *)
(* command is ZRANGE key min max, followed by BYSCORE when options.BY is   *)
(* 'SCORE' and by REV when options.REV is set.  The library reads no other *)
(* property of options.                                                    *)
(***************************************************************************)
zRangeByScore(z, min, max, rev) ==
  zRange({e \in z : min <= e.score /\ e.score <= max}, 0, -1, rev)

clientZRange(z, min, max, options) ==
  LET rev == "REV" \in DOMAIN options /\ options.REV
  IN IF "BY" \in DOMAIN options /\ options.BY = "SCORE"
     THEN zRangeByScore(z, min, max, rev)
     ELSE zRange(z, min, max, rev)

(***************************************************************************)
(* getUserLocationHistory.  startTime and endTime are sets: empty for      *)
(* null.  A bound of 0 is falsy.                                           *)
(***************************************************************************)
Truthy(bound) == bound # {} /\ bound # {0}

HistoryOptions(startTime, endTime) ==
  IF Truthy(startTime) /\ Truthy(endTime)
  THEN [REV |-> TRUE, BYSCORE |-> TRUE,
        MIN |-> CHOOSE t \in startTime : TRUE, MAX |-> CHOOSE t \in endTime : TRUE]
  ELSE [REV |-> TRUE]

getUserLocationHistory(u, startTime, endTime, ok) ==
  IF ~isConnected \/ ~ok THEN <<>>
  ELSE clientZRange(zset[u], 0, -1, HistoryOptions(startTime, endTime))

(***************************************************************************)
(* getLatestUserLocation and getAllUsersWithLocations, on a connected      *)
(* store.  The result of getLatestUserLocation is a set: empty for null.   *)
(* failing is the set of usernames whose lookup throws, which the function *)
(* catches to return null.                                                 *)
(***************************************************************************)
MergeMetadata(locationData, u) ==
  IF u \in DOMAIN hash
  THEN [locationData EXCEPT !.name = hash[u].name, !.lastUpdate = hash[u].lastUpdate]
  ELSE locationData

getLatestUserLocation(u, failing) ==
  LET latestLocation == zRange(zset[u], -1, -1, TRUE)
  IN IF u \in failing \/ Len(latestLocation) = 0 THEN {}
     ELSE {MergeMetadata(latestLocation[1], u)}

LocationKeys == {u \in Keys : zset[u] # {}}

getAllUsersWithLocations(ok, failing) ==
  IF ~isConnected \/ ~ok THEN {}
  ELSE UNION {getLatestUserLocation(u, failing) : u \in LocationKeys}

(***************************************************************************)
(* sendUsersList: the users Redis returns, each with its connected flag.   *)
(* getAllUsersWithLocations never throws, so the catch branch of           *)
(* sendUsersList (the in-memory list) is never taken.                      *)
(***************************************************************************)
UsersListMsg(allUsers) ==
  [type |-> "users_list",
   data |-> {[name |-> user.name, latitude |-> user.latitude,
              longitude |-> user.longitude, lastUpdate |-> user.lastUpdate,
              connected |-> user.name \in DOMAIN users] : user \in allUsers}]

ConnectedMsg == [type |-> "connected"]

(***************************************************************************)
(* handleUserDisconnect, as a function of the three in-memory maps.        *)
(* handleUserDisconnectUsersOnly removes the entry of the users map and    *)
(* leaves the other two maps alone.                                        *)
(***************************************************************************)
Memory(u, c, r) == [users |-> u, connections |-> c, userRateLimit |-> r]

handleUserDisconnectUsersOnly(m, username) ==
  IF username \in DOMAIN m.users
  THEN Memory(MapDelete(m.users, username), m.connections, m.userRateLimit)
  ELSE m

handleUserDisconnect(m, username) ==
  IF username \in DOMAIN m.users
  THEN Memory(MapDelete(m.users, username), MapDelete(m.connections, username),
              MapDelete(m.userRateLimit, username))
  ELSE m

RECURSIVE DisconnectAll(_, _)
DisconnectAll(m, names) ==
  IF names = {} THEN m
  ELSE LET u == CHOOSE x \in names : TRUE
       IN DisconnectAll(handleUserDisconnect(m, u), names \ {u})

(***************************************************************************)
(* The test of the cleanup sweep, now - lastUpdate > userTimeout, and      *)
(* before it a sweep that lets an entry live one time unit longer.         *)
(***************************************************************************)
IsStaleLate(user, t) == t - getTime(user.lastUpdate) > userTimeout + 1

IsStale(user, t) == t - getTime(user.lastUpdate) > userTimeout

(***************************************************************************)
(* The payloads clients send.                                              *)
(***************************************************************************)
Latitudes == {37, 38}
Longitudes == {-122}

ClientTimes(t) == {toISOString(t - userTimeout), toISOString(t + userTimeout + 1)}

ValidUpdates(t) ==
  {[name |-> n, latitude |-> la, longitude |-> lo] :
     n \in Names, la \in Latitudes, lo \in Longitudes}
  \cup {[name |-> n, latitude |-> la, longitude |-> lo, lastUpdate |-> lu] :
          n \in Names, la \in Latitudes, lo \in Longitudes, lu \in ClientTimes(t)}

InvalidUpdates(t) ==
  {[name |-> n, latitude |-> 37, longitude |-> -122] : n \in {"", LongName}}
  \cup {[name |-> "alice", latitude |-> la, longitude |-> -122] : la \in {-91, 91}}
  \cup {[name |-> "alice", latitude |-> 37, longitude |-> lo] : lo \in {-181, 181}}
  \cup {[name |-> "alice", latitude |-> 37, longitude |-> -122,
         lastUpdate |-> toISOString(t - userTimeout - 1)]}

Updates(t) == ValidUpdates(t) \cup InvalidUpdates(t)

HistoryRequests(t) ==
  {EmptyMap}
  \cup {[username |-> u] : u \in Names}
  \cup {[username |-> u, startTime |-> toISOString(s)] : u \in Names, s \in 0..t}
  \cup {[username |-> u, startTime |-> toISOString(s), endTime |-> toISOString(e)] :
          u \in Names, s \in 0..t, e \in 0..t}

(***************************************************************************)
(* The initial state: the constructor has run, initializeRedis is waiting  *)
(* for the Redis client to connect, the store is empty.                    *)
(***************************************************************************)
InitServer ==
  /\ now = 1
  /\ connState = [c \in Conns |-> "idle"]
  /\ wsUsername = [c \in Conns |-> Null]
  /\ users = EmptyMap
  /\ connections = EmptyMap
  /\ userRateLimit = EmptyMap
  /\ isConnected = FALSE
  /\ redisPhase = "connecting"
  /\ retries = 0
  /\ tasks = <<>>
  /\ sent = NoSent
  /\ last = Event("init", 0, Null, "")
  /\ lastAccepted = EmptyMap

Init ==
  /\ InitServer
  /\ zset = [u \in Keys |-> {}]
  /\ hash = EmptyMap
  /\ expireAt = EmptyMap

(***************************************************************************)
(* The server starts over a store that an earlier run has written: bob's   *)
(* last update, stored by storeUserLocation at time 0, has not expired.    *)
(***************************************************************************)
PersistedUser == UserData([name |-> "bob", latitude |-> 38, longitude |-> -122], 0)

InitPersisted ==
  /\ InitServer
  /\ zset = [u \in Keys |-> IF u = "bob" THEN zAdd({}, 0, PersistedUser) ELSE {}]
  /\ hash = MapSet(EmptyMap, "bob", [name |-> PersistedUser.name,
                                     lastUpdate |-> PersistedUser.lastUpdate])
  /\ expireAt = MapSet(MapSet(EmptyMap, <<"locations", "bob">>, locationTTL),
                       <<"user", "bob">>, userTTL)

(***************************************************************************)
(* Time passes.  Redis deletes the keys whose expiry instant is reached.   *)
(***************************************************************************)
Expired(key, t) == key \in DOMAIN expireAt /\ expireAt[key] <= t

Tick ==
  /\ now < MaxTime
  /\ now' = now + 1
  /\ zset' = [u \in Keys |-> IF Expired(<<"locations", u>>, now') THEN {} ELSE zset[u]]
  /\ hash' = [u \in {x \in DOMAIN hash : ~Expired(<<"user", x>>, now')} |-> hash[u]]
  /\ expireAt' = [k \in {x \in DOMAIN expireAt : expireAt[x] > now'} |-> expireAt[k]]
  /\ sent' = NoSent
  /\ last' = Event("tick", 0, Null, "")
  /\ UNCHANGED <<connState, wsUsername, memory, redis, tasks, lastAccepted>>

(***************************************************************************)
(* open: the connection gets the acknowledgment and the users list.        *)
(* Connections are opened in the order of their numbers.                   *)
(***************************************************************************)
Open(c, ok, failing) ==
  /\ connState[c] = "idle"
  /\ \A d \in Conns : d < c => connState[d] # "idle"
  /\ connState' = [connState EXCEPT ![c] = "open"]
  /\ wsUsername' = [wsUsername EXCEPT ![c] = Null]
  /\ sent' = [NoSent EXCEPT ![c] =
                <<ConnectedMsg, UsersListMsg(getAllUsersWithLocations(ok, failing))>>]
  /\ last' = Event("open", c, Null, "")
  /\ UNCHANGED <<now, memory, redis, store, tasks, lastAccepted>>

(***************************************************************************)
(* The end of handleLocationUpdate: the broadcast of the update.  stored   *)
(* is what became of the Redis write; the code ignores it.  The variant    *)
(* before it is a server that reports a write that was not stored to the   *)
(* sender instead of broadcasting the update.                              *)
(***************************************************************************)
LocationUpdateBroadcastIfStored(stored, cstate, conns, ws, userData) ==
  IF stored = "stored"
  THEN broadcastToOthers(cstate, conns, userData.name, UserLocationMsg(userData))
  ELSE sendMessage(cstate, ws, ErrorMsg("LOCATION_UPDATE_ERROR"))

LocationUpdateBroadcast(stored, cstate, conns, ws, userData) ==
  broadcastToOthers(cstate, conns, userData.name, UserLocationMsg(userData))

(***************************************************************************)
(* handleLocationUpdate up to its await.  A rejected update changes        *)
(* nothing and answers with an error.  An accepted one updates the maps    *)
(* and calls storeUserLocation: when Redis is not connected that returns   *)
(* at once and the broadcast follows in the same step; otherwise the call  *)
(* is suspended with its first Redis command, zAdd, outstanding.  The      *)
(* first definition is a server that counts a rejected update as an        *)
(* attempt in the rate-limit map.                                          *)
(* AcceptLocationUpdateEager is a server that broadcasts an accepted       *)
(* update before it calls storeUserLocation.                               *)
(* LocationUpdateRateFirst is a server that consults the rate limiter      *)
(* before it validates the payload.                                        *)
(***************************************************************************)
RejectLocationUpdateCounted(c, data, code) ==
  /\ sent' = sendMessage(connState, c, ErrorMsg(code))
  /\ last' = [Event("location_update", c, NameOf(data), code) EXCEPT
                !.prev = PreviousAccepted(NameOf(data)), !.data = data]
  /\ userRateLimit' = MapSet(userRateLimit, NameOf(data), now)
  /\ UNCHANGED <<now, connState, wsUsername, users, connections, redis, store, tasks,
                 lastAccepted>>

RejectLocationUpdate(c, data, code) ==
  /\ sent' = sendMessage(connState, c, ErrorMsg(code))
  /\ last' = [Event("location_update", c, NameOf(data), code) EXCEPT
                !.prev = PreviousAccepted(NameOf(data)), !.data = data]
  /\ UNCHANGED <<now, connState, wsUsername, memory, redis, store, tasks, lastAccepted>>

AcceptLocationUpdateEager(c, data) ==
  LET userData == UserData(data, now)
      conns == MapSet(connections, data.name, c)
      event == [Event("location_update", c, data.name, "accepted") EXCEPT
                  !.prev = PreviousAccepted(data.name), !.data = userData]
  IN /\ userRateLimit' = MapSet(userRateLimit, data.name, now)
     /\ users' = MapSet(users, data.name, userData)
     /\ connections' = conns
     /\ wsUsername' = [wsUsername EXCEPT ![c] = data.name]
     /\ lastAccepted' = MapSet(lastAccepted, data.name, now)
     /\ sent' = LocationUpdateBroadcast("skipped", connState, conns, c, userData)
     /\ IF isConnected
        THEN /\ Len(tasks) < MaxInFlight
             /\ tasks' = Append(tasks, [ws |-> c, name |-> data.name, userData |-> userData,
                                        timestamp |-> now, pc |-> "zAdd"])
             /\ last' = [event EXCEPT !.stored = "pending"]
        ELSE /\ tasks' = tasks
             /\ last' = [event EXCEPT !.stored = "skipped"]
     /\ UNCHANGED <<now, connState, redis, store>>

AcceptLocationUpdate(c, data) ==
  LET userData == UserData(data, now)
      conns == MapSet(connections, data.name, c)
      event == [Event("location_update", c, data.name, "accepted") EXCEPT
                  !.prev = PreviousAccepted(data.name), !.data = userData]
  IN /\ userRateLimit' = MapSet(userRateLimit, data.name, now)
     /\ users' = MapSet(users, data.name, userData)
     /\ connections' = conns
     /\ wsUsername' = [wsUsername EXCEPT ![c] = data.name]
     /\ lastAccepted' = MapSet(lastAccepted, data.name, now)
     /\ IF isConnected
        THEN /\ Len(tasks) < MaxInFlight
             /\ tasks' = Append(tasks, [ws |-> c, name |-> data.name, userData |-> userData,
                                        timestamp |-> now, pc |-> "zAdd"])
             /\ sent' = NoSent
             /\ last' = [event EXCEPT !.stored = "pending"]
        ELSE /\ tasks' = tasks
             /\ sent' = LocationUpdateBroadcast("skipped", connState, conns, c, userData)
             /\ last' = [event EXCEPT !.stored = "skipped"]
     /\ UNCHANGED <<now, connState, redis, store>>

LocationUpdateRateFirst(c, data) ==
  /\ connState[c] = "open"
  /\ LET validation == validateLocationData(data, now)
     IN IF NameOf(data) # Null /\ isRateLimited(userRateLimit, NameOf(data), now)
          THEN RejectLocationUpdate(c, data, "RATE_LIMITED")
        ELSE IF validation # "valid" THEN RejectLocationUpdate(c, data, validation)
        ELSE IF data.name \notin DOMAIN users /\ Cardinality(DOMAIN users) >= maxUsers
          THEN RejectLocationUpdate(c, data, "USER_LIMIT_EXCEEDED")
        ELSE AcceptLocationUpdate(c, data)

LocationUpdate(c, data) ==
  /\ connState[c] = "open"
  /\ LET validation == validateLocationData(data, now)
     IN IF validation # "valid" THEN RejectLocationUpdate(c, data, validation)
        ELSE IF isRateLimited(userRateLimit, data.name, now)
          THEN RejectLocationUpdate(c, data, "RATE_LIMITED")
        ELSE IF data.name \notin DOMAIN users /\ Cardinality(DOMAIN users) >= maxUsers
          THEN RejectLocationUpdate(c, data, "USER_LIMIT_EXCEEDED")
        ELSE AcceptLocationUpdate(c, data)

(***************************************************************************)
(* storeUserLocation after its first await, and the rest of                *)
(* handleLocationUpdate.  The Redis client has one connection: the         *)
(* outstanding commands are answered in the order they were sent, which is *)
(* the order of tasks.  The step executes the command at the head and runs *)
(* the continuation: the next command is sent (the call goes to the back   *)
(* of the queue), or the write is over and the update is broadcast.        *)
(* handleLocationUpdate ignores the result of storeUserLocation: the       *)
(* broadcast is the same whether the write was stored, failed or skipped.  *)
(***************************************************************************)
FinishStore(t, stored) ==
  /\ tasks' = Tail(tasks)
  /\ sent' = LocationUpdateBroadcast(stored, connState, connections, t.ws, t.userData)
  /\ last' = [Event("store_done", t.ws, t.name, "broadcast") EXCEPT
                !.stored = stored, !.data = t.userData]

NextCommand(t, command) ==
  /\ tasks' = Append(Tail(tasks), [t EXCEPT !.pc = command])
  /\ sent' = NoSent
  /\ last' = Event(t.pc, t.ws, t.name, "ok")

(***************************************************************************)
(* The trim of storeUserLocation, zRemRangeByRank(key, 0, -N - 1), and     *)
(* before it a trim whose stop rank is off by one: it leaves N + 1.        *)
(***************************************************************************)
TrimmedHistoryOffByOne(z) == zRemRangeByRank(z, 0, -maxLocationEntries - 2)

TrimmedHistory(z) == zRemRangeByRank(z, 0, -maxLocationEntries - 1)

StoreStep ==
  /\ tasks # <<>>
  /\ isConnected
  /\ LET t == Head(tasks)
     IN CASE t.pc = "zAdd" ->
               /\ zset' = [zset EXCEPT ![t.name] = zAdd(@, t.timestamp, t.userData)]
               /\ UNCHANGED <<hash, expireAt>>
               /\ NextCommand(t, "zRemRangeByRank")
          [] t.pc = "zRemRangeByRank" ->
               /\ zset' = [zset EXCEPT ![t.name] = TrimmedHistory(@)]
               /\ UNCHANGED <<hash, expireAt>>
               /\ tasks' = Append(Tail(tasks), [t EXCEPT !.pc = "expireLocations"])
               /\ sent' = NoSent
               /\ last' = [Event(t.pc, t.ws, t.name, "ok") EXCEPT
                             !.removed = zset[t.name] \ TrimmedHistory(zset[t.name])]
          [] t.pc = "expireLocations" ->
               /\ expireAt' = IF zset[t.name] # {}
                              THEN MapSet(expireAt, <<"locations", t.name>>, now + locationTTL)
                              ELSE expireAt
               /\ UNCHANGED <<zset, hash>>
               /\ NextCommand(t, "hSet")
          [] t.pc = "hSet" ->
               /\ hash' = MapSet(hash, t.name,
                                 [name |-> t.userData.name,
                                  lastUpdate |-> t.userData.lastUpdate])
               /\ UNCHANGED <<zset, expireAt>>
               /\ NextCommand(t, "expireUser")
          [] t.pc = "expireUser" ->
               /\ expireAt' = IF t.name \in DOMAIN hash
                              THEN MapSet(expireAt, <<"user", t.name>>, now + userTTL)
                              ELSE expireAt
               /\ UNCHANGED <<zset, hash>>
               /\ FinishStore(t, "stored")
  /\ UNCHANGED <<now, connState, wsUsername, memory, redis, lastAccepted>>

(***************************************************************************)
(* The command at the head is rejected: storeUserLocation catches the      *)
(* error and returns false, its remaining commands are never sent.         *)
(* StoreFailContinuing is a storeUserLocation that catches the error of    *)
(* each command by itself and goes on with the next one.                   *)
(***************************************************************************)
StoreFailContinuing ==
  /\ tasks # <<>>
  /\ LET t == Head(tasks)
     IN CASE t.pc = "zAdd" -> NextCommand(t, "zRemRangeByRank")
          [] t.pc = "zRemRangeByRank" -> NextCommand(t, "expireLocations")
          [] t.pc = "expireLocations" -> NextCommand(t, "hSet")
          [] t.pc = "hSet" -> NextCommand(t, "expireUser")
          [] t.pc = "expireUser" -> FinishStore(t, "failed")
  /\ UNCHANGED <<now, connState, wsUsername, memory, redis, store, lastAccepted>>

StoreFail ==
  /\ tasks # <<>>
  /\ FinishStore(Head(tasks), "failed")
  /\ UNCHANGED <<now, connState, wsUsername, memory, redis, store, lastAccepted>>

(***************************************************************************)
(* get_users.                                                              *)
(***************************************************************************)
ReadOutcome(ok, failing) ==
  IF ~isConnected THEN "not_connected"
  ELSE IF ~ok \/ failing # {} THEN "read_failed"
  ELSE "read"

GetUsers(c, ok, failing) ==
  /\ connState[c] = "open"
  /\ sent' = sendMessage(connState, c, UsersListMsg(getAllUsersWithLocations(ok, failing)))
  /\ last' = Event("get_users", c, Null, ReadOutcome(ok, failing))
  /\ UNCHANGED <<now, connState, wsUsername, memory, redis, store, tasks, lastAccepted>>

(***************************************************************************)
(* user_disconnect, and the close callback.  ws.close() runs the close     *)
(* callback before it returns; the callback finds the user already         *)
(* removed.  The first definition is a server without the test             *)
(* ws.username === data.name.                                              *)
(* UserDisconnectRequestUnbinding is a server whose close callback removes *)
(* every username the connections map binds to the closing socket.         *)
(***************************************************************************)
UserDisconnectRequestAnyName(c, name) ==
  /\ connState[c] = "open"
  /\ IF name = ""
     THEN /\ sent' = sendMessage(connState, c, ErrorMsg("INVALID_DISCONNECT"))
          /\ last' = Event("user_disconnect", c, name, "INVALID_DISCONNECT")
          /\ UNCHANGED <<connState, memory>>
     ELSE LET m == handleUserDisconnect(Memory(users, connections, userRateLimit), name)
          IN /\ users' = m.users
             /\ connections' = m.connections
             /\ userRateLimit' = m.userRateLimit
             /\ connState' = [connState EXCEPT ![c] = "closed"]
             /\ sent' = NoSent
             /\ last' = [Event("user_disconnect", c, name, "disconnected") EXCEPT
                           !.evicted = (DOMAIN users) \ (DOMAIN m.users)]
  /\ UNCHANGED <<now, wsUsername, redis, store, tasks, lastAccepted>>

UserDisconnectRequestUnbinding(c, name) ==
  /\ connState[c] = "open"
  /\ IF name = ""
     THEN /\ sent' = sendMessage(connState, c, ErrorMsg("INVALID_DISCONNECT"))
          /\ last' = Event("user_disconnect", c, name, "INVALID_DISCONNECT")
          /\ UNCHANGED <<connState, memory>>
     ELSE IF wsUsername[c] = name
     THEN LET m == DisconnectAll(
                     handleUserDisconnect(Memory(users, connections, userRateLimit), name),
                     {u \in DOMAIN connections : connections[u] = c})
          IN /\ users' = m.users
             /\ connections' = m.connections
             /\ userRateLimit' = m.userRateLimit
             /\ connState' = [connState EXCEPT ![c] = "closed"]
             /\ sent' = NoSent
             /\ last' = [Event("user_disconnect", c, name, "disconnected") EXCEPT
                           !.evicted = (DOMAIN users) \ (DOMAIN m.users)]
     ELSE /\ sent' = sendMessage(connState, c, ErrorMsg("UNAUTHORIZED_DISCONNECT"))
          /\ last' = Event("user_disconnect", c, name, "UNAUTHORIZED_DISCONNECT")
          /\ UNCHANGED <<connState, memory>>
  /\ UNCHANGED <<now, wsUsername, redis, store, tasks, lastAccepted>>

UserDisconnectRequest(c, name) ==
  /\ connState[c] = "open"
  /\ IF name = ""
     THEN /\ sent' = sendMessage(connState, c, ErrorMsg("INVALID_DISCONNECT"))
          /\ last' = Event("user_disconnect", c, name, "INVALID_DISCONNECT")
          /\ UNCHANGED <<connState, memory>>
     ELSE IF wsUsername[c] = name
     THEN LET m == handleUserDisconnect(
                     handleUserDisconnect(Memory(users, connections, userRateLimit), name),
                     wsUsername[c])
          IN /\ users' = m.users
             /\ connections' = m.connections
             /\ userRateLimit' = m.userRateLimit
             /\ connState' = [connState EXCEPT ![c] = "closed"]
             /\ sent' = NoSent
             /\ last' = [Event("user_disconnect", c, name, "disconnected") EXCEPT
                           !.evicted = (DOMAIN users) \ (DOMAIN m.users)]
     ELSE /\ sent' = sendMessage(connState, c, ErrorMsg("UNAUTHORIZED_DISCONNECT"))
          /\ last' = Event("user_disconnect", c, name, "UNAUTHORIZED_DISCONNECT")
          /\ UNCHANGED <<connState, memory>>
  /\ UNCHANGED <<now, wsUsername, redis, store, tasks, lastAccepted>>

(***************************************************************************)
(* The close callback, and before it a callback that also calls removeUser *)
(* of the Redis service, which the server never calls.                     *)
(***************************************************************************)
CloseRemovingUser(c) ==
  /\ connState[c] = "open"
  /\ connState' = [connState EXCEPT ![c] = "closed"]
  /\ LET m == IF wsUsername[c] # Null
              THEN handleUserDisconnect(Memory(users, connections, userRateLimit),
                                        wsUsername[c])
              ELSE Memory(users, connections, userRateLimit)
     IN /\ users' = m.users
        /\ connections' = m.connections
        /\ userRateLimit' = m.userRateLimit
        /\ last' = [Event("close", c, wsUsername[c], "") EXCEPT
                      !.evicted = (DOMAIN users) \ (DOMAIN m.users)]
  /\ zset' = [u \in Keys |-> IF isConnected /\ u = wsUsername[c] THEN {} ELSE zset[u]]
  /\ hash' = IF isConnected THEN MapDelete(hash, wsUsername[c]) ELSE hash
  /\ sent' = NoSent
  /\ UNCHANGED <<now, wsUsername, redis, expireAt, tasks, lastAccepted>>

Close(c) ==
  /\ connState[c] = "open"
  /\ connState' = [connState EXCEPT ![c] = "closed"]
  /\ LET m == IF wsUsername[c] # Null
              THEN handleUserDisconnect(Memory(users, connections, userRateLimit),
                                        wsUsername[c])
              ELSE Memory(users, connections, userRateLimit)
     IN /\ users' = m.users
        /\ connections' = m.connections
        /\ userRateLimit' = m.userRateLimit
        /\ last' = [Event("close", c, wsUsername[c], "") EXCEPT
                      !.evicted = (DOMAIN users) \ (DOMAIN m.users)]
  /\ sent' = NoSent
  /\ UNCHANGED <<now, wsUsername, redis, store, tasks, lastAccepted>>

(***************************************************************************)
(* get_location_history.  The request carries a username and, optionally,  *)
(* startTime and endTime as ISO strings.                                   *)
(* GetLocationHistoryRaising is a server whose history read raises its     *)
(* failure to handleMessage, which reports HISTORY_REQUEST_ERROR.          *)
(***************************************************************************)
RequestTime(request, field) ==
  IF field \in DOMAIN request THEN {getTime(request[field])} ELSE {}

LocationHistoryMsg(username, history) ==
  [type |-> "location_history", data |-> [username |-> username, history |-> history]]

GetLocationHistoryRaising(c, request, ok) ==
  /\ connState[c] = "open"
  /\ IF "username" \notin DOMAIN request
     THEN /\ sent' = sendMessage(connState, c, ErrorMsg("MISSING_USERNAME"))
          /\ last' = [Event("get_location_history", c, Null, "MISSING_USERNAME") EXCEPT
                        !.data = request]
     ELSE /\ sent' = IF isConnected /\ ~ok
                     THEN sendMessage(connState, c, ErrorMsg("HISTORY_REQUEST_ERROR"))
                     ELSE sendMessage(connState, c,
                            LocationHistoryMsg(request.username,
                              getUserLocationHistory(request.username,
                                                     RequestTime(request, "startTime"),
                                                     RequestTime(request, "endTime"), ok)))
          /\ last' = [Event("get_location_history", c, request.username,
                            ReadOutcome(ok, {})) EXCEPT !.data = request]
  /\ UNCHANGED <<now, connState, wsUsername, memory, redis, store, tasks, lastAccepted>>

GetLocationHistory(c, request, ok) ==
  /\ connState[c] = "open"
  /\ IF "username" \notin DOMAIN request
     THEN /\ sent' = sendMessage(connState, c, ErrorMsg("MISSING_USERNAME"))
          /\ last' = [Event("get_location_history", c, Null, "MISSING_USERNAME") EXCEPT
                        !.data = request]
     ELSE LET history == getUserLocationHistory(request.username,
                                                RequestTime(request, "startTime"),
                                                RequestTime(request, "endTime"), ok)
          IN /\ sent' = sendMessage(connState, c,
                                    LocationHistoryMsg(request.username, history))
             /\ last' = [Event("get_location_history", c, request.username,
                               ReadOutcome(ok, {})) EXCEPT !.data = request]
  /\ UNCHANGED <<now, connState, wsUsername, memory, redis, store, tasks, lastAccepted>>

(***************************************************************************)
(* The message callback and the head of handleMessage: a frame that is not *)
(* JSON, an envelope without type or data, a type the switch does not      *)
(* know.  The other messages are dispatched to the handlers above.         *)
(* handleMessageOneCode is a server that reports an incomplete envelope as *)
(* INVALID_JSON.                                                           *)
(***************************************************************************)
Undecodable == [undecodable |-> TRUE]

MessageTypes == {"location_update", "user_disconnect", "get_users", "get_location_history"}

handleMessageOneCode(message) ==
  IF "undecodable" \in DOMAIN message THEN "INVALID_JSON"
  ELSE IF "type" \notin DOMAIN message \/ "data" \notin DOMAIN message
    THEN "INVALID_JSON"
  ELSE IF message.type \notin MessageTypes THEN "UNKNOWN_MESSAGE_TYPE"
  ELSE "dispatch"

handleMessage(message) ==
  IF "undecodable" \in DOMAIN message THEN "INVALID_JSON"
  ELSE IF "type" \notin DOMAIN message \/ "data" \notin DOMAIN message
    THEN "INVALID_MESSAGE"
  ELSE IF message.type \notin MessageTypes THEN "UNKNOWN_MESSAGE_TYPE"
  ELSE "dispatch"

ProtocolMessages ==
  {Undecodable, [type |-> "get_users"], [data |-> "none"], [other |-> "none"],
   [type |-> "ping", data |-> "none"], [type |-> "get_users", data |-> "none"]}

ProtocolError(c, message) ==
  /\ connState[c] = "open"
  /\ handleMessage(message) # "dispatch"
  /\ sent' = sendMessage(connState, c, ErrorMsg(handleMessage(message)))
  /\ last' = [Event("message", c, Null, handleMessage(message)) EXCEPT !.data = message]
  /\ UNCHANGED <<now, connState, wsUsername, memory, redis, store, tasks, lastAccepted>>

(***************************************************************************)
(* The cleanup timer: the stale users are removed, then cleanupOldEntries  *)
(* removes from every location key the entries with a score up to the      *)
(* cutoff (nothing when Redis is not connected or the command fails).  A   *)
(* sorted set left empty is no key any more.  CleanupTickUnbinding is a    *)
(* timer that also resets ws.username of the connections of the users it   *)
(* removes.                                                                *)
(* cleanupOldEntriesEarly is a purge whose cutoff is one time unit too     *)
(* late: it removes entries that are not locationTTL old yet.              *)
(***************************************************************************)
cleanupOldEntriesEarly(z, t) ==
  [u \in Keys |-> zRemRangeByScore(z[u], 0, t - locationTTL + 1)]

cleanupOldEntries(z, t) == [u \in Keys |-> zRemRangeByScore(z[u], 0, t - locationTTL)]

CleanupTickUnbinding(ok) ==
  LET staleUsers == {u \in DOMAIN users : IsStale(users[u], now)}
      m == DisconnectAll(Memory(users, connections, userRateLimit), staleUsers)
      cleaned == IF isConnected /\ ok THEN cleanupOldEntries(zset, now) ELSE zset
  IN /\ users' = m.users
     /\ connections' = m.connections
     /\ userRateLimit' = m.userRateLimit
     /\ wsUsername' = [c \in Conns |-> IF wsUsername[c] \in staleUsers THEN Null
                                       ELSE wsUsername[c]]
     /\ zset' = cleaned
     /\ expireAt' = [k \in {x \in DOMAIN expireAt :
                              x[1] = "locations" => cleaned[x[2]] # {}} |-> expireAt[k]]
     /\ sent' = NoSent
     /\ last' = [Event("cleanup", 0, Null, "") EXCEPT
                   !.evicted = staleUsers,
                   !.removed = UNION {zset[u] \ cleaned[u] : u \in Keys}]
     /\ UNCHANGED <<now, connState, redis, hash, tasks, lastAccepted>>

CleanupTick(ok) ==
  LET staleUsers == {u \in DOMAIN users : IsStale(users[u], now)}
      m == DisconnectAll(Memory(users, connections, userRateLimit), staleUsers)
      cleaned == IF isConnected /\ ok THEN cleanupOldEntries(zset, now) ELSE zset
  IN /\ users' = m.users
     /\ connections' = m.connections
     /\ userRateLimit' = m.userRateLimit
     /\ zset' = cleaned
     /\ expireAt' = [k \in {x \in DOMAIN expireAt :
                              x[1] = "locations" => cleaned[x[2]] # {}} |-> expireAt[k]]
     /\ sent' = NoSent
     /\ last' = [Event("cleanup", 0, Null, "") EXCEPT
                   !.evicted = staleUsers,
                   !.removed = UNION {zset[u] \ cleaned[u] : u \in Keys}]
     /\ UNCHANGED <<now, connState, wsUsername, redis, hash, tasks, lastAccepted>>

(***************************************************************************)
(* The reconnectStrategy given to the Redis client.  After a failed        *)
(* attempt the client calls it with the number of attempts that have       *)
(* failed before this one in the current connection or reconnection (0     *)
(* for the first failure): a number is the delay in milliseconds before    *)
(* the next attempt, an Error ends the attempts and closes the client.     *)
(* retries is that number, and GaveUp once the strategy has returned its   *)
(* Error.                                                                  *)
(***************************************************************************)
StrategyError == -1
GaveUp == -1

reconnectStrategy(r) ==
  IF r > retryLimit THEN StrategyError
  ELSE IF r * 100 < 3000 THEN r * 100 ELSE 3000

Reconnecting ==
  /\ retries # GaveUp
  /\ \/ redisPhase = "connecting"
     \/ redisPhase \in {"loading", "ready"} /\ ~isConnected

(***************************************************************************)
(* getConnectionStatus and the body of the /health response.               *)
(***************************************************************************)
getConnectionStatus == [connected |-> isConnected]

Health == [status |-> "healthy", connectedUsers |-> Cardinality(DOMAIN users),
           redis |-> getConnectionStatus]

(***************************************************************************)
(* initializeRedis and the Redis client's connection events.               *)
(* RedisConnectFail is the failure of client.connect() as initializeRedis  *)
(* sees it: every attempt has failed and the strategy has given up.        *)
(* RedisRetry and RedisGiveUp are the single failed attempts, during       *)
(* client.connect() and after the loss of an established connection.       *)
(***************************************************************************)
RedisConnectOk ==
  /\ redisPhase = "connecting"
  /\ redisPhase' = "loading"
  /\ isConnected' = TRUE
  /\ retries' = 0
  /\ sent' = NoSent
  /\ last' = Event("redis_connect", 0, Null, "connected")
  /\ UNCHANGED <<now, connState, wsUsername, memory, store, tasks, lastAccepted>>

RedisConnectFail ==
  /\ redisPhase = "connecting"
  /\ redisPhase' = "failed"
  /\ isConnected' = FALSE
  /\ retries' = GaveUp
  /\ sent' = NoSent
  /\ last' = Event("redis_connect", 0, Null, "failed")
  /\ UNCHANGED <<now, connState, wsUsername, memory, store, tasks, lastAccepted>>

RedisRetry ==
  /\ Reconnecting
  /\ reconnectStrategy(retries) # StrategyError
  /\ retries' = retries + 1
  /\ isConnected' = FALSE
  /\ sent' = NoSent
  /\ last' = [Event("redis_retry", 0, Null, "") EXCEPT
                !.data = [retries |-> retries, delay |-> reconnectStrategy(retries)]]
  /\ UNCHANGED <<now, connState, wsUsername, memory, redisPhase, store, tasks, lastAccepted>>

RedisGiveUp ==
  /\ Reconnecting
  /\ reconnectStrategy(retries) = StrategyError
  /\ retries' = GaveUp
  /\ isConnected' = FALSE
  /\ redisPhase' = IF redisPhase = "connecting" THEN "failed" ELSE redisPhase
  /\ sent' = NoSent
  /\ last' = [Event("redis_give_up", 0, Null, "") EXCEPT !.data = [retries |-> retries]]
  /\ UNCHANGED <<now, connState, wsUsername, memory, store, tasks, lastAccepted>>

loadUsersFromRedis(us, loaded) ==
  [u \in (DOMAIN us) \cup {user.name : user \in loaded} |->
     IF \E user \in loaded : user.name = u
     THEN CHOOSE user \in loaded : user.name = u
     ELSE us[u]]

LoadUsers(ok, failing) ==
  /\ redisPhase = "loading"
  /\ redisPhase' = "ready"
  /\ users' = loadUsersFromRedis(users, getAllUsersWithLocations(ok, failing))
  /\ sent' = NoSent
  /\ last' = Event("load_users", 0, Null, ReadOutcome(ok, failing))
  /\ UNCHANGED <<now, connState, wsUsername, connections, userRateLimit, isConnected,
                 retries, store, tasks, lastAccepted>>

RedisError ==
  /\ redisPhase \in {"loading", "ready"}
  /\ isConnected
  /\ isConnected' = FALSE
  /\ sent' = NoSent
  /\ last' = Event("redis_error", 0, Null, "")
  /\ UNCHANGED <<now, connState, wsUsername, memory, redisPhase, retries, store, tasks,
                 lastAccepted>>

RedisReconnect ==
  /\ redisPhase \in {"loading", "ready"}
  /\ ~isConnected
  /\ retries # GaveUp
  /\ isConnected' = TRUE
  /\ retries' = 0
  /\ sent' = NoSent
  /\ last' = Event("redis_reconnect", 0, Null, "")
  /\ UNCHANGED <<now, connState, wsUsername, memory, redisPhase, store, tasks, lastAccepted>>

Next ==
  \/ Tick
  \/ \E c \in Conns, ok \in BOOLEAN, failing \in SUBSET Names : Open(c, ok, failing)
  \/ \E c \in Conns, data \in Updates(now) : LocationUpdate(c, data)
  \/ \E c \in Conns, name \in Names \cup {""} : UserDisconnectRequest(c, name)
  \/ \E c \in Conns, ok \in BOOLEAN, failing \in SUBSET Names : GetUsers(c, ok, failing)
  \/ \E c \in Conns : Close(c)
  \/ \E c \in Conns, request \in HistoryRequests(now), ok \in BOOLEAN :
       GetLocationHistory(c, request, ok)
  \/ \E c \in Conns, message \in ProtocolMessages : ProtocolError(c, message)
  \/ \E ok \in BOOLEAN : CleanupTick(ok)
  \/ StoreStep
  \/ StoreFail
  \/ RedisConnectOk
  \/ RedisConnectFail
  \/ \E ok \in BOOLEAN, failing \in SUBSET Names : LoadUsers(ok, failing)
  \/ RedisError
  \/ RedisReconnect
  \/ RedisRetry
  \/ RedisGiveUp

Spec == Init /\ [][Next]_vars

(***************************************************************************)
(* Memory-only mode: the Redis client never connects, every write is       *)
(* skipped and every read returns nothing.                                 *)
(***************************************************************************)
PresenceUpdates(t) ==
  {[name |-> n, latitude |-> 37, longitude |-> -122] : n \in Names}
  \cup {[name |-> n, latitude |-> 37, longitude |-> -122,
         lastUpdate |-> toISOString(t + userTimeout + 1)] : n \in Names}

NextMemory ==
  \/ Tick
  \/ \E c \in Conns : Open(c, TRUE, {})
  \/ \E c \in Conns, data \in PresenceUpdates(now) : LocationUpdate(c, data)
  \/ \E c \in Conns, name \in Names \cup {""} : UserDisconnectRequest(c, name)
  \/ \E c \in Conns : GetUsers(c, TRUE, {})
  \/ \E c \in Conns : Close(c)
  \/ CleanupTick(TRUE)
  \/ RedisConnectFail

SpecMemory == Init /\ [][NextMemory]_vars

(***************************************************************************)
(* Degraded persistence: Redis connects, drops and comes back, and any     *)
(* command of a write may be rejected.  Time stands still.                 *)
(***************************************************************************)
DegradedUpdates(t) == {[name |-> n, latitude |-> 37, longitude |-> -122] : n \in Names}

NextDegraded ==
  \/ \E c \in Conns : Open(c, TRUE, {})
  \/ \E c \in Conns, data \in DegradedUpdates(now) : LocationUpdate(c, data)
  \/ \E c \in Conns : Close(c)
  \/ StoreStep
  \/ StoreFail
  \/ RedisConnectOk
  \/ RedisConnectFail
  \/ RedisError
  \/ RedisReconnect

SpecDegraded == Init /\ [][NextDegraded]_vars

(***************************************************************************)
(* The history of one user: one connection sends updates for alice, Redis  *)
(* stays connected.                                                        *)
(***************************************************************************)
HistoryUpdates(t) ==
  {[name |-> "alice", latitude |-> la, longitude |-> -122] : la \in Latitudes}

NextHistory ==
  \/ Tick
  \/ Open(1, TRUE, {})
  \/ \E data \in HistoryUpdates(now) : LocationUpdate(1, data)
  \/ GetUsers(1, TRUE, {})
  \/ CleanupTick(TRUE)
  \/ StoreStep
  \/ StoreFail
  \/ RedisConnectOk

SpecHistory == Init /\ [][NextHistory]_vars

(***************************************************************************)
(* Startup over a store written by an earlier run: clients connect, send   *)
(* updates and leave while initializeRedis connects and loads the users of *)
(* the store.  Time stands still.                                          *)
(***************************************************************************)
StartupUpdates(t) == {[name |-> "alice", latitude |-> 37, longitude |-> -122]}

NextStartup ==
  \/ \E c \in Conns : Open(c, TRUE, {})
  \/ \E c \in Conns, data \in StartupUpdates(now) : LocationUpdate(c, data)
  \/ \E c \in Conns : GetUsers(c, TRUE, {})
  \/ \E c \in Conns : Close(c)
  \/ StoreStep
  \/ RedisConnectOk
  \/ \E ok \in BOOLEAN : LoadUsers(ok, {})

SpecStartup == InitPersisted /\ [][NextStartup]_vars

(***************************************************************************)
(* Startup over a store that holds as many users as maxUsers allows: bob   *)
(* and carol, stored by an earlier run at time 0.                          *)
(***************************************************************************)
PersistedUsers == {UserData([name |-> n, latitude |-> 38, longitude |-> -122], 0) :
                     n \in {"bob", "carol"}}

InitCrowded ==
  /\ InitServer
  /\ zset = [u \in Keys |-> UNION {zAdd({}, 0, user) : user \in {x \in PersistedUsers : x.name = u}}]
  /\ hash = [u \in {user.name : user \in PersistedUsers} |->
              [name |-> u, lastUpdate |-> toISOString(0)]]
  /\ expireAt = [k \in {<<"locations", "bob">>, <<"locations", "carol">>,
                         <<"user", "bob">>, <<"user", "carol">>} |->
                  IF k[1] = "locations" THEN locationTTL ELSE userTTL]

SpecCapacity == InitCrowded /\ [][NextStartup]_vars

(***************************************************************************)
(* Policy: with Redis connected, connections send valid updates for three  *)
(* usernames, one more than maxUsers, invalid updates and disconnect       *)
(* requests.  Time stands still.                                           *)
(***************************************************************************)
PolicyUpdates(t) ==
  {[name |-> n, latitude |-> 37, longitude |-> -122] : n \in Keys \cup {""}}
  \cup {[name |-> "alice", latitude |-> 91, longitude |-> -122],
        [name |-> "alice", latitude |-> 37, longitude |-> -122,
         lastUpdate |-> toISOString(t - userTimeout - 1)]}

NextPolicy ==
  \/ \E c \in Conns : Open(c, TRUE, {})
  \/ \E c \in Conns, data \in PolicyUpdates(now) : LocationUpdate(c, data)
  \/ \E c \in Conns, name \in Names \cup {""} : UserDisconnectRequest(c, name)
  \/ StoreStep
  \/ RedisConnectOk

SpecPolicy == Init /\ [][NextPolicy]_vars

(***************************************************************************)
(* Retention: with Redis connected, alice's updates are stored, her        *)
(* connection closes or asks to be disconnected, the cleanup timer fires,  *)
(* and the connections read the store.                                     *)
(***************************************************************************)
RetentionUpdates(t) == {[name |-> "alice", latitude |-> 37, longitude |-> -122]}

RetentionRequests(t) == {[username |-> "alice"]}

NextRetention ==
  \/ Tick
  \/ \E c \in Conns : Open(c, TRUE, {})
  \/ \E data \in RetentionUpdates(now) : LocationUpdate(1, data)
  \/ UserDisconnectRequest(1, "alice")
  \/ \E c \in Conns : Close(c)
  \/ \E c \in Conns : GetUsers(c, TRUE, {})
  \/ \E c \in Conns, request \in RetentionRequests(now) : GetLocationHistory(c, request, TRUE)
  \/ CleanupTick(TRUE)
  \/ StoreStep
  \/ RedisConnectOk

SpecRetention == Init /\ [][NextRetention]_vars

(***************************************************************************)
(* Archive: alice's updates are stored, some of them with the lastUpdate   *)
(* of an earlier position fix, and her history is requested with and       *)
(* without time bounds.                                                    *)
(***************************************************************************)
ArchiveUpdates(t) ==
  {[name |-> "alice", latitude |-> 37, longitude |-> -122],
   [name |-> "alice", latitude |-> 37, longitude |-> -122, lastUpdate |-> toISOString(2)]}

ArchiveRequests(t) ==
  {EmptyMap, [username |-> "alice"],
   [username |-> "alice", startTime |-> toISOString(t)],
   [username |-> "alice", endTime |-> toISOString(t)],
   [username |-> "alice", startTime |-> toISOString(t), endTime |-> toISOString(t)],
   [username |-> "alice", startTime |-> toISOString(1), endTime |-> toISOString(t)]}

NextArchive ==
  \/ Tick
  \/ Open(1, TRUE, {})
  \/ \E data \in ArchiveUpdates(now) : LocationUpdate(1, data)
  \/ \E request \in ArchiveRequests(now), ok \in BOOLEAN : GetLocationHistory(1, request, ok)
  \/ StoreStep
  \/ RedisConnectOk

SpecArchive == Init /\ [][NextArchive]_vars

(***************************************************************************)
(* Sessions: in memory-only mode connections open, send every kind of      *)
(* message, well-formed or not, and close; time passes and the cleanup     *)
(* timer fires.                                                            *)
(***************************************************************************)
SessionUpdates(t) ==
  {[name |-> n, latitude |-> 37, longitude |-> -122] : n \in Names}
  \cup {[name |-> "alice", latitude |-> 91, longitude |-> -122]}

SessionRequests(t) == {EmptyMap, [username |-> "alice"]}

NextSession ==
  \/ Tick
  \/ \E c \in Conns : Open(c, TRUE, {})
  \/ \E c \in Conns, data \in SessionUpdates(now) : LocationUpdate(c, data)
  \/ \E c \in Conns, name \in Names : UserDisconnectRequest(c, name)
  \/ \E c \in Conns : GetUsers(c, TRUE, {})
  \/ \E c \in Conns, request \in SessionRequests(now) : GetLocationHistory(c, request, TRUE)
  \/ \E c \in Conns, message \in ProtocolMessages : ProtocolError(c, message)
  \/ \E c \in Conns : Close(c)
  \/ CleanupTick(TRUE)

SpecSession == Init /\ [][NextSession]_vars

(***************************************************************************)
(* Validation: one connection sends payloads whose fields are missing, at  *)
(* the bounds of their ranges, or beyond them, in every combination.  Time *)
(* stands still.                                                           *)
(***************************************************************************)
OptionalField(key, values) == {EmptyMap} \cup {[k \in {key} |-> v] : v \in values}

ValidationInputs(t) ==
  {n @@ la @@ lo @@ lu :
     n \in OptionalField("name", {"", FullName, LongName}),
     la \in OptionalField("latitude", {-91, -90, 90, 91}),
     lo \in OptionalField("longitude", {-181, -180, 180, 181}),
     lu \in OptionalField("lastUpdate", {toISOString(t - userTimeout - 1),
                                         toISOString(t - userTimeout),
                                         toISOString(t + 1)})}

NextValidation ==
  \/ Open(1, TRUE, {})
  \/ \E data \in ValidationInputs(now) : LocationUpdate(1, data)
  \/ Close(1)

SpecValidation == Init /\ [][NextValidation]_vars

(***************************************************************************)
(* Protocol: connections send every message of the protocol, with and      *)
(* without the fields the handlers read, while Redis connects or fails to  *)
(* and reads and writes succeed or fail.  The location updates come from   *)
(* the first connection.  Time stands still.                               *)
(***************************************************************************)
ProtocolUpdates(t) ==
  {[name |-> n, latitude |-> 37, longitude |-> -122] : n \in Keys \cup {"", LongName}}
  \cup {[name |-> "alice", latitude |-> 91, longitude |-> -122],
        [name |-> "alice", latitude |-> 37, longitude |-> -181],
        [name |-> "alice", latitude |-> 37, longitude |-> -122,
         lastUpdate |-> toISOString(t - userTimeout - 1)]}

ProtocolRequests(t) ==
  {EmptyMap, [startTime |-> toISOString(t)], [username |-> "alice"],
   [username |-> "alice", startTime |-> toISOString(0), endTime |-> toISOString(t)]}

NextProtocol ==
  \/ \E c \in Conns : Open(c, TRUE, {})
  \/ \E data \in ProtocolUpdates(now) : LocationUpdate(1, data)
  \/ \E c \in Conns, name \in Names \cup {""} : UserDisconnectRequest(c, name)
  \/ \E c \in Conns : GetUsers(c, TRUE, {})
  \/ \E c \in Conns, request \in ProtocolRequests(now), ok \in BOOLEAN :
       GetLocationHistory(c, request, ok)
  \/ \E c \in Conns, message \in ProtocolMessages : ProtocolError(c, message)
  \/ \E c \in Conns : Close(c)
  \/ StoreStep
  \/ StoreFail
  \/ RedisConnectOk
  \/ RedisConnectFail

SpecProtocol == Init /\ [][NextProtocol]_vars

(***************************************************************************)
(* Purge: over a store that holds the last updates of alice and bob of an  *)
(* earlier run, stored at time 0, the first connection stores updates for  *)
(* alice over time, so that her key holds old and new entries; the Redis   *)
(* connection drops and comes back; the cleanup timer fires.               *)
(***************************************************************************)
AgedUsers == {UserData([name |-> n, latitude |-> 38, longitude |-> -122], 0) : n \in Names}

InitAged ==
  /\ InitServer
  /\ zset = [u \in Keys |-> UNION {zAdd({}, 0, user) : user \in {x \in AgedUsers : x.name = u}}]
  /\ hash = [u \in Names |-> [name |-> u, lastUpdate |-> toISOString(0)]]
  /\ expireAt = [k \in {"locations", "user"} \X Names |->
                  IF k[1] = "locations" THEN locationTTL ELSE userTTL]

PurgeUpdates(t) == {[name |-> "alice", latitude |-> 37, longitude |-> -122]}

NextPurge ==
  \/ Tick
  \/ Open(1, TRUE, {})
  \/ \E data \in PurgeUpdates(now) : LocationUpdate(1, data)
  \/ CleanupTick(TRUE)
  \/ StoreStep
  \/ RedisConnectOk
  \/ RedisError
  \/ RedisReconnect

SpecPurge == InitAged /\ [][NextPurge]_vars

(***************************************************************************)
(* Broadcast: over a store that holds bob and carol, connections send      *)
(* updates under any of the three usernames, close and are replaced, while *)
(* initializeRedis connects and loads the stored users.  Time stands       *)
(* still.                                                                  *)
(***************************************************************************)
BroadcastUpdates(t) == {[name |-> n, latitude |-> 37, longitude |-> -122] : n \in Keys}

NextBroadcast ==
  \/ \E c \in Conns : Open(c, TRUE, {})
  \/ \E c \in Conns, data \in BroadcastUpdates(now) : LocationUpdate(c, data)
  \/ \E c \in Conns : Close(c)
  \/ StoreStep
  \/ RedisConnectOk
  \/ LoadUsers(TRUE, {})

SpecBroadcast == InitCrowded /\ [][NextBroadcast]_vars

(***************************************************************************)
(* Reconnection: the attempts of the Redis client fail or succeed, at      *)
(* startup and after the loss of the connection, while a connection sends  *)
(* location updates.  Time stands still.                                   *)
(***************************************************************************)
ReconnectUpdates(t) == {[name |-> n, latitude |-> 37, longitude |-> -122] : n \in Names}

NextReconnect ==
  \/ Open(1, TRUE, {})
  \/ \E data \in ReconnectUpdates(now) : LocationUpdate(1, data)
  \/ StoreStep
  \/ StoreFail
  \/ RedisConnectOk
  \/ LoadUsers(TRUE, {})
  \/ RedisError
  \/ RedisReconnect
  \/ RedisRetry
  \/ RedisGiveUp

SpecReconnect == Init /\ [][NextReconnect]_vars

(***************************************************************************)
(* Observations shared by the properties below.                            *)
(***************************************************************************)
IsError(message) == message.type = "error"

NoErrorSent(c) == \A i \in DOMAIN sent[c] : ~IsError(sent[c][i])

UserLocationCount(c, name) ==
  Cardinality({i \in DOMAIN sent[c] :
                 /\ sent[c][i].type = "user_location"
                 /\ sent[c][i].data.name = name})

Broadcasting ==
  \/ last.op = "location_update" /\ last.stored = "skipped"
  \/ last.op = "store_done"

Bound(name) ==
  /\ name \in DOMAIN connections
  /\ connState[connections[name]] = "open"

ValidationCodes == {"INVALID_NAME", "INVALID_LOCATION", "STALE_LOCATION"}

(***************************************************************************)
(* C1: for every username, whatever the disconnects, closes and cleanup    *)
(* sweeps in between, two accepted location updates are at least           *)
(* locationUpdateInterval apart: a valid update that arrives sooner after  *)
(* the previous accepted update of its username is rejected with           *)
(* RATE_LIMITED.                                                           *)
(***************************************************************************)
C1_RateLimitSeparation ==
  last.op = "location_update" =>
    \A p \in last.prev :
      now - p < locationUpdateInterval =>
        last.code \in ValidationCodes \cup {"RATE_LIMITED"}

(***************************************************************************)
(* C2: when an accepted location update is broadcast, every other username *)
(* of the connections map receives exactly one user_location message for   *)
(* it on its connection, and the sending connection receives none.         *)
(***************************************************************************)
C2_BroadcastExclusion ==
  Broadcasting =>
    /\ \A u \in (DOMAIN connections) \ {last.name} :
         UserLocationCount(connections[u], last.name) = 1
    /\ UserLocationCount(last.ws, last.name) = 0

(***************************************************************************)
(* C3: when Redis is not connected or the read fails, the reply to         *)
(* get_users is a users_list that holds the users of the in-memory users   *)
(* map, and no error message.                                              *)
(***************************************************************************)
C3_DegradedUsersList ==
  (last.op = "get_users" /\ last.code \in {"not_connected", "read_failed"}) =>
    /\ Len(sent[last.ws]) = 1
    /\ sent[last.ws][1].type = "users_list"
    /\ DOMAIN users \subseteq {e.name : e \in sent[last.ws][1].data}

(***************************************************************************)
(* C7: once a connection is bound to a username by an accepted update, no  *)
(* step binds it to another username or unbinds it.                        *)
(***************************************************************************)
C7_BindingImmutable ==
  [][\A c \in Conns : wsUsername[c] # Null => wsUsername'[c] = wsUsername[c]]_vars

(***************************************************************************)
(* C8: after a cleanup sweep, no username whose last accepted update is    *)
(* more than userTimeout old is in the users map; in a users_list read     *)
(* from the store, a stored user that is not in the users map appears with *)
(* connected false.                                                        *)
(***************************************************************************)
C8_StalenessEviction ==
  /\ last.op = "cleanup" =>
       \A u \in DOMAIN lastAccepted :
         now - lastAccepted[u] > userTimeout => u \notin DOMAIN users
  /\ (last.op = "get_users" /\ last.code = "read") =>
       \A u \in LocationKeys \ DOMAIN users :
         \E e \in sent[last.ws][1].data : e.name = u /\ ~e.connected

(***************************************************************************)
(* C9, as stated: in every state, every entry of the users map has         *)
(* now - lastUpdate <= userTimeout.                                        *)
(***************************************************************************)
C9_NeverStale ==
  \A u \in DOMAIN users : now - getTime(users[u].lastUpdate) <= userTimeout

(***************************************************************************)
(* C9, amended: in the state a cleanup sweep leaves, every entry of the    *)
(* users map has now - lastUpdate <= userTimeout.                          *)
(***************************************************************************)
C9_NotStaleAfterSweep ==
  last.op = "cleanup" =>
    \A u \in DOMAIN users : now - getTime(users[u].lastUpdate) <= userTimeout

C9_Witness ==
  /\ last.op = "cleanup"
  /\ last.evicted # {}
  /\ DOMAIN users # {}

(***************************************************************************)
(* C4: a valid location update whose Redis write is skipped (Redis not     *)
(* connected) or fails still puts its user data into the users map, is     *)
(* still broadcast to every open connection registered under another       *)
(* username, and brings the sender no error message.                       *)
(***************************************************************************)
C4_DegradedLocationUpdate ==
  /\ (last.op = "location_update" /\ last.code = "accepted") =>
       /\ last.name \in DOMAIN users
       /\ users[last.name] = last.data
       /\ NoErrorSent(last.ws)
  /\ (Broadcasting /\ last.stored \in {"skipped", "failed"}) =>
       /\ \A u \in (DOMAIN connections) \ {last.name} :
            connState[connections[u]] = "open" =>
              \E i \in DOMAIN sent[connections[u]] :
                sent[connections[u]][i] = UserLocationMsg(last.data)
       /\ NoErrorSent(last.ws)

C4_Witness ==
  /\ last.op = "store_done"
  /\ last.stored = "failed"
  /\ \E c \in Conns \ {last.ws} : UserLocationMsg(last.data) \in {sent[c][i] : i \in DOMAIN sent[c]}

(***************************************************************************)
(* C5, as stated: in the state a completed successful append leaves, the   *)
(* history of its user holds at most maxLocationEntries records.           *)
(***************************************************************************)
C5_BoundAfterAppend ==
  (last.op = "store_done" /\ last.stored = "stored") =>
    Cardinality(zset[last.name]) <= maxLocationEntries

(***************************************************************************)
(* C5, amended: in the state the trim command of an append leaves, the     *)
(* history of its user holds at most maxLocationEntries records, exactly   *)
(* that many if the trim removed any, and no removed record has a higher   *)
(* score than a kept one.                                                  *)
(***************************************************************************)
C5_BoundAfterTrim ==
  last.op = "zRemRangeByRank" =>
    /\ Cardinality(zset[last.name]) <= maxLocationEntries
    /\ last.removed # {} => Cardinality(zset[last.name]) = maxLocationEntries
    /\ \A d \in last.removed, k \in zset[last.name] : d.score <= k.score

C5_Witness ==
  /\ last.op = "zRemRangeByRank"
  /\ last.removed # {}

(***************************************************************************)
(* C6: the location a users_list read from the store shows for a user is   *)
(* that of a record of highest score in the user's history, with name and  *)
(* lastUpdate taken from the user's metadata.                              *)
(***************************************************************************)
IsLatestOf(e, u) ==
  \E r \in zset[u] :
    /\ \A x \in zset[u] : x.score <= r.score
    /\ e.latitude = r.member.latitude
    /\ e.longitude = r.member.longitude

C6_LatestIsMaxScore ==
  (last.op = "get_users" /\ last.code = "read") =>
    \A e \in sent[last.ws][1].data :
      /\ IsLatestOf(e, e.name)
      /\ e.name \in DOMAIN hash => e.lastUpdate = hash[e.name].lastUpdate

(***************************************************************************)
(* C10: in every users_list a connection receives, an entry has connected  *)
(* true exactly when its username is bound to an open connection; this     *)
(* holds for the users loaded from the store at startup too.               *)
(***************************************************************************)
C10_ConnectedFlag ==
  \A c \in Conns : \A i \in DOMAIN sent[c] :
    sent[c][i].type = "users_list" =>
      \A e \in sent[c][i].data : e.connected <=> Bound(e.name)

(***************************************************************************)
(* C11: the users map never holds more than maxUsers usernames; a location *)
(* update is rejected with USER_LIMIT_EXCEEDED only when its username is   *)
(* not in the users map and the map holds maxUsers usernames or more, and  *)
(* it is accepted only when its username is in the map or the map holds    *)
(* fewer than maxUsers.                                                    *)
(***************************************************************************)
C11_Capacity ==
  [][/\ Cardinality(DOMAIN users') <= maxUsers
     /\ (last'.op = "location_update" /\ last'.code = "USER_LIMIT_EXCEEDED") =>
          /\ last'.name \notin DOMAIN users
          /\ Cardinality(DOMAIN users) >= maxUsers
     /\ (last'.op = "location_update" /\ last'.code = "accepted") =>
          \/ last'.name \in DOMAIN users
          \/ Cardinality(DOMAIN users) < maxUsers]_vars

(***************************************************************************)
(* The rule list of the Validator: the rules in order, the first failure   *)
(* decides.                                                                *)
(***************************************************************************)
Supplied(data, field) == field \in DOMAIN data

ValidatorRules(data, t) ==
  <<[fails |-> ~Supplied(data, "name") \/ NameLength(data.name) \notin 1..50,
     code  |-> "INVALID_NAME"],
    [fails |-> ~Supplied(data, "latitude") \/ data.latitude \notin -90..90,
     code  |-> "INVALID_LOCATION"],
    [fails |-> ~Supplied(data, "longitude") \/ data.longitude \notin -180..180,
     code  |-> "INVALID_LOCATION"],
    [fails |-> Supplied(data, "lastUpdate") /\ t - getTime(data.lastUpdate) > userTimeout,
     code  |-> "STALE_LOCATION"]>>

FirstFailure(rules) ==
  IF \E i \in DOMAIN rules : rules[i].fails
  THEN rules[CHOOSE i \in DOMAIN rules :
               rules[i].fails /\ \A j \in DOMAIN rules : j < i => ~rules[j].fails].code
  ELSE "valid"

(***************************************************************************)
(* C12: the outcome of validateLocationData for every payload of a         *)
(* location update is the first failure of the rule list, and a payload    *)
(* that passes every rule is not rejected with a validation code.          *)
(***************************************************************************)
C12_ValidationRules ==
  last.op = "location_update" =>
    IF last.code \in ValidationCodes
    THEN FirstFailure(ValidatorRules(last.data, now)) = last.code
    ELSE FirstFailure(ValidatorRules(last.data, now)) = "valid"

C12_Witness ==
  /\ last.op = "location_update"
  /\ last.code = "INVALID_LOCATION"
  /\ Supplied(last.data, "name") /\ last.data.name = FullName
  /\ Supplied(last.data, "latitude") /\ last.data.latitude = 90
  /\ Supplied(last.data, "longitude") /\ last.data.longitude = 181
  /\ Supplied(last.data, "lastUpdate") /\ now - getTime(last.data.lastUpdate) > userTimeout

(***************************************************************************)
(* C13: a location update rejected with a validation code, RATE_LIMITED or *)
(* USER_LIMIT_EXCEEDED, and a user_disconnect rejected with                *)
(* UNAUTHORIZED_DISCONNECT, leave the users, connections and rate-limit    *)
(* maps, the usernames of the connections and the store as they were; the  *)
(* only message of the step is one error, carrying the code, to the        *)
(* sender.                                                                 *)
(***************************************************************************)
RejectionCodes == ValidationCodes \cup {"RATE_LIMITED", "USER_LIMIT_EXCEEDED"}

Rejected(event) ==
  \/ event.op = "location_update" /\ event.code \in RejectionCodes
  \/ event.op = "user_disconnect" /\ event.code = "UNAUTHORIZED_DISCONNECT"

C13_RejectionFrame ==
  [][Rejected(last') =>
       /\ UNCHANGED <<users, connections, userRateLimit, wsUsername>>
       /\ UNCHANGED <<zset, hash, expireAt, tasks>>
       /\ sent' = [c \in Conns |-> IF c = last'.ws THEN <<ErrorMsg(last'.code)>> ELSE <<>>]]_vars

C13_Witness ==
  /\ last.op = "location_update"
  /\ last.code = "USER_LIMIT_EXCEEDED"
  /\ LocationKeys # {}
  /\ tasks # <<>>
  /\ \E c \in Conns \ {last.ws} : connState[c] = "open" /\ wsUsername[c] # Null

Members(history) == {history[i] : i \in DOMAIN history}

C15_DisconnectKeepsStore ==
  [][/\ last'.op \in {"close", "user_disconnect"} => UNCHANGED <<zset, hash, expireAt>>
     /\ last'.op = "cleanup" =>
          /\ hash' = hash
          /\ \A u \in Keys : zset'[u] = {e \in zset[u] : e.score > now - locationTTL}
     /\ (last'.op = "get_users" /\ last'.code = "read") =>
          LocationKeys \subseteq {e.name : e \in sent'[last'.ws][1].data}
     /\ (last'.op = "get_location_history" /\ last'.code = "read") =>
          Members(sent'[last'.ws][1].data.history) = {e.member : e \in zset[last'.name]}]_vars

C15_Witness ==
  /\ last.op = "get_location_history"
  /\ last.code = "read"
  /\ last.name \in DOMAIN lastAccepted
  /\ last.name \notin DOMAIN users
  /\ sent[last.ws][1].data.history # <<>>

(***************************************************************************)
(* C16: the history a get_location_history returns from the store is in    *)
(* descending order of score; with both bounds in the request it holds     *)
(* exactly the records with a score in [startTime, endTime], and with a    *)
(* bound missing every record of the user.                                 *)
(***************************************************************************)
NewestFirst(z) == zRange(z, 0, -1, TRUE)

InRange(z, request) ==
  IF "startTime" \in DOMAIN request /\ "endTime" \in DOMAIN request
  THEN {e \in z : getTime(request.startTime) <= e.score /\ e.score <= getTime(request.endTime)}
  ELSE z

C16_HistoryRange ==
  (last.op = "get_location_history" /\ last.code = "read") =>
    sent[last.ws][1].data.history = NewestFirst(InRange(zset[last.name], last.data))

(***************************************************************************)
(* C17: the zAdd of every append adds one entry to the sorted set of its   *)
(* user and leaves the entries that were there as they were, score and     *)
(* member; an entry disappears only in a trim, at the expiry of its key or *)
(* in the purge of the cleanup tick.                                       *)
(***************************************************************************)
C17_RecordsImmutable ==
  [][/\ last'.op = "zAdd" =>
          /\ Cardinality(zset'[last'.name]) = Cardinality(zset[last'.name]) + 1
          /\ zset[last'.name] \subseteq zset'[last'.name]
     /\ last'.op \notin {"zRemRangeByRank", "tick", "cleanup"} =>
          \A u \in Keys : zset[u] \subseteq zset'[u]]_vars

(***************************************************************************)
(* C18: a frame that is not JSON is answered with INVALID_JSON, an         *)
(* envelope without type or without data with INVALID_MESSAGE, an envelope *)
(* with an unknown type with UNKNOWN_MESSAGE_TYPE; the step sends this one *)
(* error to the sender and changes neither the state of a connection, nor  *)
(* a bound username, nor the maps, nor the store.                          *)
(***************************************************************************)
ProtocolErrorCode(message) ==
  CASE message = Undecodable -> "INVALID_JSON"
    [] message # Undecodable /\ ~({"type", "data"} \subseteq DOMAIN message) -> "INVALID_MESSAGE"
    [] OTHER -> "UNKNOWN_MESSAGE_TYPE"

C18_ProtocolErrors ==
  [][last'.op = "message" =>
       /\ last'.code = ProtocolErrorCode(last'.data)
       /\ sent' = [c \in Conns |-> IF c = last'.ws THEN <<ErrorMsg(last'.code)>> ELSE <<>>]
       /\ connState[last'.ws] = "open"
       /\ UNCHANGED <<connState, wsUsername, users, connections, userRateLimit>>
       /\ UNCHANGED <<zset, hash, expireAt, tasks>>]_vars

C18_Witness ==
  /\ last.op = "message"
  /\ last.code = "INVALID_MESSAGE"
  /\ wsUsername[last.ws] # Null
  /\ wsUsername[last.ws] \in DOMAIN users

(***************************************************************************)
(* C19: a connection that is open without a username gets one exactly in   *)
(* the step that accepts a location update from it; a connection that has  *)
(* a username keeps having one until it is closed, also when the cleanup   *)
(* timer removes its user; a closed connection stays closed.               *)
(***************************************************************************)
Phase(cstate, username, c) ==
  CASE cstate[c] = "idle" -> "NOT_OPENED"
    [] cstate[c] = "closed" -> "CLOSED"
    [] cstate[c] = "open" /\ username[c] = Null -> "UNASSOCIATED"
    [] OTHER -> "ASSOCIATED"

C19_Lifecycle ==
  [][\A c \in Conns :
       LET p == Phase(connState, wsUsername, c)
           q == Phase(connState', wsUsername', c)
           accepted == /\ last'.op = "location_update"
                       /\ last'.code = "accepted"
                       /\ last'.ws = c
       IN /\ p = "NOT_OPENED" => q \in {"NOT_OPENED", "UNASSOCIATED"}
          /\ p = "UNASSOCIATED" => q = (IF accepted THEN "ASSOCIATED"
                                       ELSE IF connState'[c] = "closed" THEN "CLOSED"
                                       ELSE "UNASSOCIATED")
          /\ p = "ASSOCIATED" => q \in {"ASSOCIATED", "CLOSED"}
          /\ p = "CLOSED" => q = "CLOSED"]_vars

C19_Witness ==
  /\ last.op = "cleanup"
  /\ \E c \in Conns : connState[c] = "open" /\ wsUsername[c] \in last.evicted

(***************************************************************************)
(* C20: the close of a connection removes its username from the users map  *)
(* in the same step, and no message is sent afterwards on account of the   *)
(* closed connection: the end of a store write that one of its updates     *)
(* started sends nothing.                                                  *)
(***************************************************************************)
C20_CloseSilences ==
  /\ (last.op = "close" /\ last.name # Null) => last.name \notin DOMAIN users
  /\ (last.op = "store_done" /\ connState[last.ws] = "closed") => sent = NoSent

(***************************************************************************)
(* C21, as stated: every error message sent to a connection carries one of *)
(* the ten documented codes, whatever the message and its payload.         *)
(***************************************************************************)
DocumentedCodes ==
  {"INVALID_JSON", "INVALID_MESSAGE", "INVALID_NAME", "INVALID_LOCATION",
   "STALE_LOCATION", "RATE_LIMITED", "USER_LIMIT_EXCEEDED", "UNAUTHORIZED_DISCONNECT",
   "UNKNOWN_MESSAGE_TYPE", "HISTORY_ERROR"}

ErrorCodes(c) == {sent[c][i].code : i \in {j \in DOMAIN sent[c] : IsError(sent[c][j])}}

TooFrequent(rateLimit, name, t) ==
  /\ name \in DOMAIN rateLimit
  /\ t - rateLimit[name] < locationUpdateInterval

C22_RateLimiter ==
  [][/\ (last'.op = "location_update" /\ last'.code \notin ValidationCodes) =>
          (last'.code = "RATE_LIMITED" <=> TooFrequent(userRateLimit, last'.name, now))
     /\ \A u \in DOMAIN userRateLimit' :
          (u \notin DOMAIN userRateLimit \/ userRateLimit'[u] # userRateLimit[u]) =>
            /\ last'.op = "location_update" /\ last'.code = "accepted" /\ last'.name = u
            /\ userRateLimit'[u] = now]_vars

C22_Witness ==
  /\ last.op = "location_update"
  /\ last.code = "accepted"
  /\ last.prev = {now - locationUpdateInterval}
  /\ wsUsername[last.ws] = last.name
  /\ \E c \in Conns \ {last.ws} : connState[c] = "open" /\ wsUsername[c] # Null

(***************************************************************************)
(* C23: the purge of a cleanup tick removes from every sorted set the      *)
(* entries whose score is below now - locationTTL, removes no entry whose  *)
(* score is above it and adds none, and leaves the hashes alone; when      *)
(* Redis is not connected it leaves the whole store as it is.              *)
(***************************************************************************)
C23_PurgeExpired ==
  [][last'.op = "cleanup" =>
       IF isConnected
       THEN /\ \A u \in Keys :
                 /\ zset'[u] \subseteq zset[u]
                 /\ \A e \in zset[u] :
                      /\ e.score < now - locationTTL => e \notin zset'[u]
                      /\ e.score > now - locationTTL => e \in zset'[u]
            /\ hash' = hash
       ELSE UNCHANGED <<zset, hash, expireAt>>]_vars

C23_Witness ==
  /\ last.op = "cleanup"
  /\ \E e \in last.removed : e.score < now - locationTTL /\ zset[e.member.name] # {}

(***************************************************************************)
(* C24: in a broadcast, a username of the connections map whose socket is  *)
(* closed (the send fails) does not keep the message from the others:      *)
(* every username of the map other than the sender's whose socket is open  *)
(* is sent the message, no connection is sent more copies than it has      *)
(* usernames in the map (nothing is sent again), and a closed socket gets  *)
(* nothing.                                                                *)
(***************************************************************************)
Registrations(c) == {u \in (DOMAIN connections) \ {last.name} : connections[u] = c}

C24_BroadcastIsolation ==
  Broadcasting =>
    /\ \A u \in (DOMAIN connections) \ {last.name} :
         connState[connections[u]] = "open" =>
           UserLocationCount(connections[u], last.name) >= 1
    /\ \A c \in Conns : Len(sent[c]) <= Cardinality(Registrations(c))
    /\ \A c \in Conns : connState[c] # "open" => sent[c] = <<>>

C24_Witness ==
  /\ Broadcasting
  /\ \E u \in (DOMAIN connections) \ {last.name} : connState[connections[u]] = "closed"
  /\ \E v \in (DOMAIN connections) \ {last.name} :
       /\ connState[connections[v]] = "open"
       /\ sent[connections[v]] = <<UserLocationMsg(last.data)>>

(***************************************************************************)
(* C25: the commands of one storeUserLocation run in the order zAdd,       *)
(* zRemRangeByRank, expire of the location key, hSet, expire of the user   *)
(* key: a write starts with zAdd, each command is sent when the one before *)
(* it has been answered and changes its own part of the store only, and    *)
(* the write ends as stored after the fifth.  When a command fails the     *)
(* write ends at once: the store is left as it is, no further command of   *)
(* the write is sent, and the sender gets no error.                        *)
(***************************************************************************)
SubStepAfter(command) ==
  CASE command = "zAdd" -> "zRemRangeByRank"
    [] command = "zRemRangeByRank" -> "expireLocations"
    [] command = "expireLocations" -> "hSet"
    [] command = "hSet" -> "expireUser"

SubStepFrame(command) ==
  CASE command \in {"zAdd", "zRemRangeByRank"} -> UNCHANGED <<hash, expireAt>>
    [] command = "expireLocations" -> UNCHANGED <<zset, hash>>
    [] command = "hSet" -> UNCHANGED <<zset, expireAt>>

C25_AppendOrder ==
  [][/\ (last'.op = "location_update" /\ last'.stored = "pending") =>
          /\ Len(tasks') = Len(tasks) + 1
          /\ tasks'[Len(tasks')].pc = "zAdd"
          /\ UNCHANGED <<zset, hash, expireAt>>
     /\ last'.op \in {"zAdd", "zRemRangeByRank", "expireLocations", "hSet"} =>
          /\ tasks # <<>>
          /\ Head(tasks).pc = last'.op
          /\ tasks' = Append(Tail(tasks), [Head(tasks) EXCEPT !.pc = SubStepAfter(last'.op)])
          /\ SubStepFrame(last'.op)
          /\ last'.op = "zAdd" =>
               [score |-> Head(tasks).timestamp, member |-> Head(tasks).userData]
                 \in zset'[last'.name]
          /\ last'.op = "hSet" => last'.name \in DOMAIN hash'
     /\ (last'.op = "store_done" /\ last'.stored = "stored") =>
          /\ Head(tasks).pc = "expireUser"
          /\ tasks' = Tail(tasks)
          /\ UNCHANGED <<zset, hash>>
     /\ (last'.op = "store_done" /\ last'.stored = "failed") =>
          /\ tasks' = Tail(tasks)
          /\ UNCHANGED <<zset, hash, expireAt>>
          /\ \A i \in DOMAIN sent'[last'.ws] : ~IsError(sent'[last'.ws][i])]_vars

C25_Witness ==
  /\ last.op = "store_done"
  /\ last.stored = "failed"
  /\ \E e \in zset[last.name] : e.member = last.data
  /\ <<"locations", last.name>> \in DOMAIN expireAt
  /\ last.name \notin DOMAIN hash

(***************************************************************************)
(* C26: the step that accepts a location update writes its user data to    *)
(* the users map, its connection to the connections map, its username to   *)
(* ws.username and now to the rate-limit map; a user_location message is   *)
(* sent only by that step when the store write is skipped, or by the step  *)
(* that ends the store write, stored or failed, and never while the write  *)
(* is pending; the message carries the user data the accepting step wrote  *)
(* to the users map.                                                       *)
(***************************************************************************)
SendsUserLocation(out) ==
  \E c \in Conns : \E i \in DOMAIN out[c] : out[c][i].type = "user_location"

C26_UpsertBeforeBroadcast ==
  [][/\ (last'.op = "location_update" /\ last'.code = "accepted") =>
          /\ users'[last'.name] = last'.data
          /\ connections'[last'.name] = last'.ws
          /\ wsUsername'[last'.ws] = last'.name
          /\ userRateLimit'[last'.name] = now
          /\ last'.stored \in {"pending", "skipped"}
          /\ last'.stored = "pending" =>
               /\ ~SendsUserLocation(sent')
               /\ tasks'[Len(tasks')].userData = users'[last'.name]
     /\ SendsUserLocation(sent') =>
          \/ last'.op = "location_update" /\ last'.code = "accepted" /\ last'.stored = "skipped"
          \/ /\ last'.op = "store_done"
             /\ last'.stored \in {"stored", "failed"}
             /\ last'.data = Head(tasks).userData
             /\ tasks' = Tail(tasks)
     /\ \A c \in Conns : \A i \in DOMAIN sent'[c] :
          sent'[c][i].type = "user_location" => sent'[c][i].data = last'.data]_vars

C26_Witness ==
  /\ last.op = "store_done"
  /\ last.stored = "stored"
  /\ last.name \in DOMAIN users
  /\ users[last.name] = last.data
  /\ \E c \in Conns \ {last.ws} : sent[c] = <<UserLocationMsg(last.data)>>

(***************************************************************************)
(* C27: a connection or reconnection of the Redis client makes at most     *)
(* retryLimit retries, each after a delay of at most 3000 ms, before it    *)
(* gives up; once it has given up, Redis stays not connected, the health   *)
(* response says so, and an accepted update is not stored.                 *)
(***************************************************************************)
C27_ReconnectGivesUp ==
  /\ retries # GaveUp => retries <= retryLimit
  /\ last.op = "redis_retry" => last.data.delay \in 0..3000
  /\ retries = GaveUp =>
       /\ ~isConnected
       /\ ~Health.redis.connected
       /\ (last.op = "location_update" /\ last.code = "accepted") => last.stored = "skipped"

(***************************************************************************)
(* C28: in every state, every username of the connections map and every    *)
(* username of the rate-limit map is a username of the users map.          *)
(***************************************************************************)
C28_EntriesHaveUsers ==
  /\ DOMAIN connections \subseteq DOMAIN users
  /\ DOMAIN userRateLimit \subseteq DOMAIN users

C28_Witness ==
  /\ last.op = "close"
  /\ last.evicted # {}
  /\ DOMAIN connections # {}
  /\ DOMAIN userRateLimit = DOMAIN connections
  /\ DOMAIN connections # DOMAIN users

(***************************************************************************)
(* C29: the close of a connection removes a username from the users map    *)
(* only if the connections map holds the closing connection for that       *)
(* username; a username whose connection is another one, still open, stays.*)
(***************************************************************************)
C29_CloseOwnEntryOnly ==
  [][last'.op = "close" =>
       \A u \in last'.evicted :
         u \in DOMAIN connections /\ connections[u] = last'.ws]_vars

(***************************************************************************)
(* C30: in every state, every connection of the connections map is open:   *)
(* no username maps to a connection that has closed, and a broadcast is    *)
(* addressed to open connections only.                                     *)
(***************************************************************************)
C30_ConnectionsOpen ==
  \A u \in DOMAIN connections : connState[connections[u]] = "open"

(***************************************************************************)
(* C31: a location update is answered by the first of three tests that     *)
(* fails, in the order validation, rate limit, capacity: a rejected update *)
(* brings its sender one error, with the code of that test, and nothing    *)
(* else is sent; an update is accepted only when the three tests pass.     *)
(***************************************************************************)
OverCapacity(us, name) == name \notin DOMAIN us /\ Cardinality(DOMAIN us) >= maxUsers

Precedence(data, t) ==
  <<[fails |-> FirstFailure(ValidatorRules(data, t)) # "valid",
     code  |-> FirstFailure(ValidatorRules(data, t))],
    [fails |-> TooFrequent(userRateLimit, NameOf(data), t), code |-> "RATE_LIMITED"],
    [fails |-> OverCapacity(users, NameOf(data)), code |-> "USER_LIMIT_EXCEEDED"]>>

C31_RejectionPrecedence ==
  [][last'.op = "location_update" =>
       IF last'.code = "accepted"
       THEN FirstFailure(Precedence(last'.data, now)) = "valid"
       ELSE /\ FirstFailure(Precedence(last'.data, now)) = last'.code
            /\ sent' = [c \in Conns |-> IF c = last'.ws THEN <<ErrorMsg(last'.code)>>
                                        ELSE <<>>]]_vars

C31_Witness ==
  /\ last.op = "location_update"
  /\ last.code \in ValidationCodes
  /\ TooFrequent(userRateLimit, last.name, now)
  /\ Cardinality(DOMAIN users) >= maxUsers

(***************************************************************************)
(* C32: removing a user is idempotent.  In every reachable state and for   *)
(* every username u, handleUserDisconnect(u) applied twice leaves the maps *)
(* that applying it once leaves, and it leaves them as they are when u is  *)
(* not in the users map.  A user_disconnect that is accepted, together     *)
(* with the close callback that ws.close() runs, removes the entries of    *)
(* that username from the three maps and changes no other entry.           *)
(***************************************************************************)
RemovalIdempotent(m) ==
  \A u \in Keys :
    /\ handleUserDisconnect(handleUserDisconnect(m, u), u) = handleUserDisconnect(m, u)
    /\ u \notin DOMAIN m.users => handleUserDisconnect(m, u) = m

C32_RemoveIdempotent ==
  [][/\ RemovalIdempotent(Memory(users, connections, userRateLimit))
     /\ RemovalIdempotent(Memory(users', connections', userRateLimit'))
     /\ (last'.op = "user_disconnect" /\ last'.code = "disconnected") =>
          /\ Memory(users', connections', userRateLimit')
               = handleUserDisconnect(Memory(users, connections, userRateLimit), last'.name)
          /\ users' = MapDelete(users, last'.name)
          /\ connections' = MapDelete(connections, last'.name)
          /\ userRateLimit' = MapDelete(userRateLimit, last'.name)
          /\ last'.evicted \subseteq {last'.name}]_vars

C32_Witness ==
  /\ last.op = "user_disconnect"
  /\ last.code = "disconnected"
  /\ last.evicted = {last.name}
  /\ DOMAIN users # {}
  /\ \E u \in DOMAIN connections : connections[u] = last.ws

====
